---- MODULE Spec2Model ----
(***************************************************************************)
(* A model of vitest-md-reporter: the aggregation of a finished test run   *)
(* (MarkdownReporter.buildTestRunData), the Markdown renderer              *)
(* (MarkdownRenderer.render) and the scoped file write (saveFileToDisk).   *)
(*                                                                         *)
(* JavaScript values are modelled as follows.                              *)
(*  - A number that may be undefined is [present, tenths]; durations the   *)
(*    runner reports are fixed-point numbers in tenths of a millisecond,   *)
(*    so that Math.round has something to round.                           *)
(*  - A call either returns or throws: [ok |-> TRUE, value |-> v] or       *)
(*    [ok |-> FALSE, error |-> "TypeError"].                               *)
(*  - `this`: a method handed over as a bare callback (xs.map(this.m)) is  *)
(*    called with `this` undefined (class bodies are strict code).  Such   *)
(*    methods take the receiver as their first parameter: the reporter or  *)
(*    renderer record (bound = TRUE) or ThisUndefined.  Reading a property *)
(*    of an undefined receiver throws a TypeError.                         *)
(***************************************************************************)
EXTENDS Integers, Sequences, FiniteSets, TLC

VARIABLES
    constructedWith, \* the options the reporter was constructed with
    reporter,      \* the MarkdownReporter instance (its private fields)
    testModules,   \* the raw modules the runner has reported so far
    buildCall,     \* the last buildTestRunData call: its inputs and outcome
    cwd,           \* process.cwd()
    envRoot,       \* process.env.REPORT_OUTPUT_ROOT
    fsDirs,        \* directories that exist on disk
    fsFiles,       \* files on disk: path -> content
    saveCall,      \* the last saveFileToDisk call: its inputs and outcome
    renderIn,      \* the TestRunData value handed to the renderer
    procEnv,       \* the process environment the renderer runs in
    renderCalls,   \* the render calls made so far: environment and outcome
    clock,         \* what Date.now() returns
    runCalls,      \* the onTestRunEnd calls made so far: inputs, steps, outcome
    logged,        \* the messages ctx.logger.log has received
    utilArg,       \* the argument a renderer utility is about to be called with
    utilCall       \* the last call of a renderer utility: argument and result

aggVars == <<reporter, testModules, buildCall>>
saveVars == <<cwd, envRoot, fsDirs, fsFiles, saveCall>>
renderVars == <<renderIn, procEnv, renderCalls>>
runVars == <<clock, runCalls, logged>>
utilVars == <<utilArg, utilCall>>
vars == <<constructedWith, reporter, testModules, buildCall, cwd, envRoot, fsDirs, fsFiles,
          saveCall, renderIn, procEnv, renderCalls, clock, runCalls, logged,
          utilArg, utilCall>>

(***************************************************************************)
(* Bounds of the model.                                                    *)
(***************************************************************************)
\* Modules, suites and tests of one run, counted together.
MaxSize == 4

\* The length of an outputFile path, in characters.
MaxPathLen == 5

\* Projects, modules, suites and tests of one rendered value, counted together.
MaxRenderSize == 4

\* The render calls of one behaviour.
MaxRenders == 2

\* The onTestRunEnd calls of one behaviour.
MaxRuns == 2

\* The times the clock advances in one behaviour.
MaxTicks == 2

\* The whole hours of a duration handed to formatDuration.
MaxHours == 1

(***************************************************************************)
(* JavaScript helpers.                                                     *)
(***************************************************************************)
ThisUndefined == [bound |-> FALSE]

Returned(v) == [ok |-> TRUE, value |-> v]

TypeError == [ok |-> FALSE, error |-> "TypeError"]

NoNumber == [present |-> FALSE, tenths |-> 0]

\* A timestamp in milliseconds since 1 January 1970 UTC, as its whole seconds
\* and the milliseconds above them (one machine integer cannot hold it).
Time(sec, ms) == [sec |-> sec, ms |-> ms]

\* b - a, in milliseconds.
\* The difference taken the wrong way round.
MsBetweenReversed(a, b) == (a.sec - b.sec) * 1000 + (a.ms - b.ms)

MsBetween(a, b) == (b.sec - a.sec) * 1000 + (b.ms - a.ms)

Tenths(n) == [present |-> TRUE, tenths |-> n]

RECURSIVE SumSeq(_)
SumSeq(s) == IF s = <<>> THEN 0 ELSE Head(s) + SumSeq(Tail(s))

RECURSIVE FlatMap(_)
FlatMap(ss) == IF ss = <<>> THEN <<>> ELSE Head(ss) \o FlatMap(Tail(ss))

(***************************************************************************)
(* The runner's result tree (vitest's TestModule, TestSuite, TestCase).    *)
(***************************************************************************)
State == {"passed", "failed", "skipped"}

\* TestResult['state'] of vitest: a test that has not finished is pending.
TestStates == State \cup {"pending"}

\* TestModuleState of vitest.
TestModuleStates == State \cup {"pending", "queued"}

\* TestRunEndReason of vitest.
TestRunEndReasons == {"passed", "failed", "interrupted"}

ProjectNames == {"A", "B", "C", "D"}

RawTest(name, state, duration) ==
    [type |-> "test", name |-> name, state |-> state, duration |-> duration,
     children |-> <<>>]

RawSuite(name, children) ==
    [type |-> "suite", name |-> name, state |-> "none", duration |-> NoNumber,
     children |-> children]

RawModule(id, project, state, duration, children) ==
    [relativeModuleId |-> id, projectName |-> project, state |-> state,
     duration |-> duration, children |-> children]

\* The test cases the bounded runs are built from: every state a test can be
\* in, with a duration that rounds down, rounds up, or is missing.
Leaves ==
    { RawTest("t1", "passed", Tenths(1004)),
      RawTest("t2", "failed", Tenths(2005)),
      RawTest("t3", "skipped", NoNumber),
      RawTest("t4", "pending", NoNumber) }

\* Forest[n]: the child lists that hold exactly n suites and tests.
Forest[n \in 0..MaxSize] ==
    IF n = 0 THEN {<<>>}
    ELSE UNION { { <<first>> \o rest :
                     first \in (IF k = 1 THEN Leaves ELSE {})
                               \cup { RawSuite("s", c) : c \in Forest[k - 1] },
                     rest \in Forest[n - k] } : k \in 1..n }

\* What the runner reports of a module besides its tree.
ModuleHeaders ==
    { [id |-> "a.test.ts", project |-> "A", state |-> "passed",
       duration |-> Tenths(15)],
      [id |-> "b.test.ts", project |-> "B", state |-> "failed",
       duration |-> Tenths(24)],
      [id |-> "c.test.ts", project |-> "C", state |-> "skipped",
       duration |-> Tenths(0)],
      [id |-> "d.test.ts", project |-> "D", state |-> "pending",
       duration |-> Tenths(15)],
      [id |-> "a2.test.ts", project |-> "A", state |-> "queued",
       duration |-> Tenths(0)] }

RECURSIVE TreeSize(_)
TreeSize(children) ==
    IF children = <<>> THEN 0
    ELSE 1 + TreeSize(Head(children).children) + TreeSize(Tail(children))

RunSize(modules) ==
    Len(modules) + SumSeq([i \in 1..Len(modules) |-> TreeSize(modules[i].children)])

\* children.allTests(state?): every test below, depth first, in order.
RECURSIVE allTests(_, _)
allTests(children, state) ==
    IF children = <<>> THEN <<>>
    ELSE LET h == Head(children)
             here == IF h.type = "suite" THEN allTests(h.children, state)
                     ELSE IF state = "any" \/ h.state = state THEN <<h>>
                     ELSE <<>>
         IN  here \o allTests(Tail(children), state)

\* children.tests() and children.suites(): the direct children of a kind.
tests(children) == SelectSeq(children, LAMBDA c : c.type = "test")

suites(children) == SelectSeq(children, LAMBDA c : c.type = "suite")

(***************************************************************************)
(* src/reporter/utils.ts                                                   *)
(***************************************************************************)
\* Math.round of a number in tenths, undefined defaulting to 0: the nearest
\* integer, a half rounding up.
roundDurationToMs(milliseconds) ==
    LET t == IF milliseconds.present THEN milliseconds.tenths ELSE 0
    IN  (t + 5) \div 10

(***************************************************************************)
(* node:path (posix) and node:fs, as far as saveFileToDisk uses them.  A   *)
(* path is a sequence of characters.                                       *)
(***************************************************************************)
Sep == <<"/">>

StartsWith(s, prefix) ==
    Len(prefix) <= Len(s) /\ SubSeq(s, 1, Len(prefix)) = prefix

\* The text between the separators, empty segments included.
RECURSIVE SplitSegments(_, _, _)
SplitSegments(done, cur, rest) ==
    IF rest = <<>> THEN Append(done, cur)
    ELSE IF Head(rest) = "/" THEN SplitSegments(Append(done, cur), <<>>, Tail(rest))
    ELSE SplitSegments(done, Append(cur, Head(rest)), Tail(rest))

Segments(path) == SplitSegments(<<>>, <<>>, path)

\* normalizeString of an absolute path: "" and "." are dropped, ".." drops
\* the segment before it and is dropped itself at the root.
RECURSIVE NormalizeSegments(_, _)
NormalizeSegments(stack, segs) ==
    IF segs = <<>> THEN stack
    ELSE LET seg == Head(segs)
         IN  NormalizeSegments(
                CASE seg = <<>> \/ seg = <<".">> -> stack
                  [] seg = <<".", ".">> ->
                        IF stack = <<>> THEN stack
                        ELSE SubSeq(stack, 1, Len(stack) - 1)
                  [] OTHER -> Append(stack, seg),
                Tail(segs))

RECURSIVE JoinAbsolute(_)
JoinAbsolute(segs) ==
    IF segs = <<>> THEN <<>>
    ELSE Sep \o Head(segs) \o JoinAbsolute(Tail(segs))

IsAbsolute(path) == path # <<>> /\ path[1] = "/"

\* path.resolve(from, to) in a process whose working directory is dir: the
\* arguments are taken from the right until an absolute one is met, empty
\* ones are skipped, and the result is normalized, with no trailing separator.
pathResolve(dir, from, to) ==
    LET joined ==
            IF IsAbsolute(to) THEN to
            ELSE IF IsAbsolute(from) THEN from \o Sep \o to
            ELSE dir \o Sep \o from \o Sep \o to
        segs == NormalizeSegments(<<>>, Segments(joined))
    IN  IF segs = <<>> THEN Sep ELSE JoinAbsolute(segs)

\* path.dirname of a resolved path.
pathDirname(path) ==
    LET segs == NormalizeSegments(<<>>, Segments(path))
    IN  IF Len(segs) <= 1 THEN Sep
        ELSE JoinAbsolute(SubSeq(segs, 1, Len(segs) - 1))

\* A directory and the directories above it.
Ancestors(dir) ==
    LET segs == NormalizeSegments(<<>>, Segments(dir))
    IN  {Sep} \cup {JoinAbsolute(SubSeq(segs, 1, n)) : n \in 1..Len(segs)}

(***************************************************************************)
(* saveFileToDisk (src/reporter/utils.ts)                                  *)
(***************************************************************************)
\* The prefix test without the separator: resolvedPath.startsWith(root).
InsideRootNoSeparator(resolvedPath, root) == StartsWith(resolvedPath, root)

\* resolvedPath.startsWith(root + path.sep)
InsideRoot(resolvedPath, root) == StartsWith(resolvedPath, root \o Sep)

\* The call in a process with working directory dir, environment variable
\* env and a disk holding dirs and files: what it throws or returns, the file
\* system calls it made, and the disk after it.
saveFileToDisk(fileContent, outputFilePath, dir, env, dirs, files) ==
    LET root == pathResolve(dir, <<>>, IF env.present THEN env.value ELSE dir)
        resolvedPath == pathResolve(dir, root, outputFilePath)
        parent == pathDirname(resolvedPath)
    IN  IF ~InsideRoot(resolvedPath, root)
        THEN [kind |-> "threw", error |-> "Invalid output file path",
              root |-> root, resolvedPath |-> resolvedPath, ops |-> <<>>,
              dirs |-> dirs, files |-> files]
        ELSE IF resolvedPath \in dirs \cup Ancestors(parent)
        THEN \* fs.writeFileSync on a directory
             [kind |-> "threw", error |-> "EISDIR",
              root |-> root, resolvedPath |-> resolvedPath,
              ops |-> <<"mkdirSync">>,
              dirs |-> dirs \cup Ancestors(parent), files |-> files]
        ELSE [kind |-> "returned", error |-> "",
              root |-> root, resolvedPath |-> resolvedPath,
              ops |-> <<"mkdirSync", "writeFileSync">>,
              dirs |-> dirs \cup Ancestors(parent),
              files |-> {f \in files : f.path # resolvedPath}
                        \cup {[path |-> resolvedPath, content |-> fileContent]}]

(***************************************************************************)
(* MarkdownReporter: construction.                                         *)
(***************************************************************************)
Absent == [present |-> FALSE]

\* An option given as null.
Null == [present |-> FALSE, null |-> TRUE]

Given(v) == [present |-> TRUE, value |-> v]

NoOptions ==
    [outputFile |-> Absent, projectLabel |-> Absent, title |-> Absent,
     projectsOrder |-> Absent]

\* new Map(projectsOrder.map((projectName, index) => [projectName, index])):
\* a later entry of the same name overwrites the earlier one.
ProjectsOrderMap(names) ==
    [n \in {names[i] : i \in DOMAIN names} |->
        CHOOSE i \in 0..(Len(names) - 1) :
            /\ names[i + 1] = n
            /\ \A j \in (i + 1)..(Len(names) - 1) : names[j + 1] # n]

\* x ?? y on an optional string.
Coalesce(opt, default) == IF opt.present THEN opt.value ELSE default

\* The fields of a new MarkdownReporter; ctx is set by onInit only.
NewReporter(options, now) ==
    [bound |-> TRUE,
     ctxSet |-> FALSE,
     outputFile |-> Coalesce(options.outputFile, <<"vitest-report.md">>),
     projectLabel |-> Coalesce(options.projectLabel, "Project"),
     title |-> Coalesce(options.title, "Vitest Test Report"),
     projectsOrder |->
        IF options.projectsOrder.present
        THEN [defined |-> TRUE, map |-> ProjectsOrderMap(options.projectsOrder.value)]
        ELSE [defined |-> FALSE, map |-> <<>>],
     startTime |-> now]

(***************************************************************************)
(* MarkdownReporter: normalization of the raw tree.                        *)
(***************************************************************************)
\* An unchecked cast: the value is returned as it is.
convertState(state) == state

\* A mapping that returns the tests in the reverse order.
mapTestsReversed(testCases) ==
    [i \in 1..Len(testCases) |->
        LET testCase == testCases[Len(testCases) + 1 - i]
        IN  [meta |-> [duration |-> roundDurationToMs(testCase.duration),
                       state |-> convertState(testCase.state)],
             name |-> testCase.name]]

mapTests(testCases) ==
    [i \in 1..Len(testCases) |->
        [meta |-> [duration |-> roundDurationToMs(testCases[i].duration),
                   state |-> convertState(testCases[i].state)],
         name |-> testCases[i].name]]

RECURSIVE mapSuites(_)
mapSuites(testSuites) ==
    [i \in 1..Len(testSuites) |->
        [name |-> testSuites[i].name,
         suites |-> mapSuites(suites(testSuites[i].children)),
         tests |-> mapTests(tests(testSuites[i].children))]]

\* A mapping that counts the direct tests of the module only.
mapTestModuleDirectTests(testModule) ==
    [meta |-> [duration |-> roundDurationToMs(testModule.duration),
               state |-> convertState(testModule.state)],
     name |-> testModule.relativeModuleId,
     projectName |-> testModule.projectName,
     summary |->
        [tests |->
            [passed |-> Len(allTests(tests(testModule.children), "passed")),
             failed |-> Len(allTests(tests(testModule.children), "failed")),
             skipped |-> Len(allTests(tests(testModule.children), "skipped")),
             total |-> Len(allTests(tests(testModule.children), "any"))]],
     suites |-> mapSuites(suites(testModule.children)),
     tests |-> mapTests(tests(testModule.children))]

mapTestModule(testModule) ==
    [meta |-> [duration |-> roundDurationToMs(testModule.duration),
               state |-> convertState(testModule.state)],
     name |-> testModule.relativeModuleId,
     projectName |-> testModule.projectName,
     summary |->
        [tests |->
            [passed |-> Len(allTests(testModule.children, "passed")),
             failed |-> Len(allTests(testModule.children, "failed")),
             skipped |-> Len(allTests(testModule.children, "skipped")),
             total |-> Len(allTests(testModule.children, "any"))]],
     suites |-> mapSuites(suites(testModule.children)),
     tests |-> mapTests(tests(testModule.children))]

(***************************************************************************)
(* MarkdownReporter: grouping, ordering and project summaries.             *)
(***************************************************************************)
\* The reducer of the grouping: it does not read `this`.
groupByProject(projects, testModule) ==
    LET found == {i \in DOMAIN projects : projects[i].name = testModule.projectName}
    IN  IF found = {}
        THEN Append(projects, [name |-> testModule.projectName,
                               testModules |-> <<testModule>>])
        ELSE LET i == CHOOSE k \in found : \A l \in found : k <= l
             IN  [projects EXCEPT ![i].testModules = Append(@, testModule)]

\* array.reduce(groupByProject, [])
RECURSIVE ReduceGroup(_, _)
ReduceGroup(acc, modules) ==
    IF modules = <<>> THEN acc
    ELSE ReduceGroup(groupByProject(acc, Head(modules)), Tail(modules))

\* this.projectsOrder.get(name) ?? Infinity
OrderKey(order, name) ==
    IF name \in DOMAIN order THEN [inf |-> FALSE, n |-> order[name]]
    ELSE [inf |-> TRUE, n |-> 0]

\* x - y on keys: a number, +-Infinity, or NaN (Infinity - Infinity).
KeyDifference(x, y) ==
    CASE x.inf /\ y.inf -> "NaN"
      [] x.inf /\ ~y.inf -> "positive"
      [] ~x.inf /\ y.inf -> "negative"
      [] OTHER -> IF x.n < y.n THEN "negative"
                  ELSE IF x.n > y.n THEN "positive" ELSE "zero"

\* The comparator.  Its first statement reads this.projectsOrder.
sortByProject(this, a, b) ==
    IF ~this.bound THEN TypeError
    ELSE IF ~this.projectsOrder.defined THEN Returned("zero")
    ELSE Returned(KeyDifference(OrderKey(this.projectsOrder.map, a.name),
                                OrderKey(this.projectsOrder.map, b.name)))

\* Array.prototype.sort(sortByProject) with the comparator's receiver `this`:
\* stable; a NaN result counts as 0; the comparator is not called on fewer
\* than two elements.
RECURSIVE InsertSorted(_, _, _)
InsertSorted(this, sorted, x) ==
    IF sorted = <<>> THEN <<x>>
    ELSE LET last == sorted[Len(sorted)]
         IN  IF sortByProject(this, last, x).value = "positive"
             THEN Append(InsertSorted(this, SubSeq(sorted, 1, Len(sorted) - 1), x), last)
             ELSE Append(sorted, x)

RECURSIVE InsertionSort(_, _, _)
InsertionSort(this, sorted, rest) ==
    IF rest = <<>> THEN sorted
    ELSE InsertionSort(this, InsertSorted(this, sorted, Head(rest)), Tail(rest))

ArraySort(this, array) ==
    IF Len(array) < 2 THEN Returned(array)
    ELSE IF ~sortByProject(this, array[1], array[2]).ok
         THEN sortByProject(this, array[1], array[2])
    ELSE Returned(InsertionSort(this, <<>>, array))

sumTestsCountByState(modules, state) ==
    SumSeq([i \in 1..Len(modules) |-> modules[i].summary.tests[state]])

\* Its summary reads this.sumTestsCountByState.
enhanceProject(this, project) ==
    IF ~this.bound THEN TypeError
    ELSE Returned(
        [name |-> project.name,
         testModules |-> project.testModules,
         meta |-> [duration |->
            SumSeq([i \in 1..Len(project.testModules) |->
                        project.testModules[i].meta.duration])],
         summary |-> [tests |->
            [passed |-> sumTestsCountByState(project.testModules, "passed"),
             failed |-> sumTestsCountByState(project.testModules, "failed"),
             skipped |-> sumTestsCountByState(project.testModules, "skipped"),
             total |-> sumTestsCountByState(project.testModules, "total")]]])

\* array.map(this.enhanceProject): the results in order, or the error of the
\* first call that throws.
MapEnhanceProject(this, array) ==
    LET results == [i \in DOMAIN array |-> enhanceProject(this, array[i])]
    IN  IF \E i \in DOMAIN array : ~results[i].ok
        THEN results[CHOOSE i \in DOMAIN array :
                        ~results[i].ok /\ \A j \in 1..(i - 1) : results[j].ok]
        ELSE Returned([i \in DOMAIN array |-> results[i].value])

(***************************************************************************)
(* MarkdownReporter.buildTestRunData                                       *)
(***************************************************************************)
\* testModules.map((testModule) => this.mapTestModule(testModule)): an arrow
\* function, so mapTestModule runs with the reporter as `this`.
MappedModules(modules) == [i \in 1..Len(modules) |-> mapTestModule(modules[i])]

\* .reduce(this.groupByProject, []).sort(this.sortByProject).map(this.enhanceProject):
\* the three methods are handed over unbound and run with `this` undefined.
BuildProjects(modules) ==
    LET grouped == ReduceGroup(<<>>, MappedModules(modules))
        sorted == ArraySort(ThisUndefined, grouped)
    IN  IF ~sorted.ok THEN sorted
        ELSE MapEnhanceProject(ThisUndefined, sorted.value)

\* An aggregation that starts with testModules.reverse(), which writes
\* its receiver.
ArraysReversingArgument(this, modules) ==
    LET reversed == [i \in 1..Len(modules) |-> modules[Len(modules) + 1 - i]]
        grouped == ReduceGroup(<<>>, MappedModules(reversed))
        sorted == ArraySort(ThisUndefined, grouped)
    IN  [testModules |-> reversed,
         mapped |-> MappedModules(reversed),
         projects |-> IF sorted.ok THEN sorted.value ELSE grouped]

\* The arrays of the pipeline after it has run or thrown: the argument, on
\* which only map is called; the array map returns; and the [] literal that
\* reduce starts from, to which groupByProject pushes and which sort orders
\* in place.
ArraysAfterBuild(this, modules) ==
    LET mapped == MappedModules(modules)
        grouped == ReduceGroup(<<>>, mapped)
        sorted == ArraySort(ThisUndefined, grouped)
    IN  [testModules |-> modules,
         mapped |-> mapped,
         projects |-> IF sorted.ok THEN sorted.value ELSE grouped]

filterTestModulesByState(modules, state) ==
    SelectSeq(modules, LAMBDA m : m.state = state)

filterTestsByState(modules, state) ==
    FlatMap([i \in 1..Len(modules) |-> allTests(modules[i].children, state)])

\* The object literal is evaluated in source order: meta, projectLabel,
\* projects, summary, title; a throw in projects ends the call.
buildTestRunData(this, modules, reason, endTime) ==
    LET projects == BuildProjects(modules)
    IN  IF ~projects.ok THEN projects
        ELSE Returned(
            [meta |->
                [duration |-> roundDurationToMs(Tenths(10 * MsBetween(this.startTime, endTime))),
                 endTime |-> endTime,
                 startTime |-> this.startTime,
                 state |-> convertState(reason)],
             projectLabel |-> this.projectLabel,
             projects |-> projects.value,
             summary |->
                [testModules |->
                    [passed |-> Len(filterTestModulesByState(modules, "passed")),
                     failed |-> Len(filterTestModulesByState(modules, "failed")),
                     skipped |-> Len(filterTestModulesByState(modules, "skipped")),
                     total |-> Len(modules)],
                 tests |->
                    [passed |-> Len(filterTestsByState(modules, "passed")),
                     failed |-> Len(filterTestsByState(modules, "failed")),
                     skipped |-> Len(filterTestsByState(modules, "skipped")),
                     total |-> Len(FlatMap([i \in 1..Len(modules) |->
                                    allTests(modules[i].children, "any")]))]],
             title |-> this.title])


(***************************************************************************)
(* src/renderer/utils.ts (date-fns format and intervalToDuration)          *)
(***************************************************************************)
Pad2(n) == IF n < 10 THEN "0" \o ToString(n) ELSE ToString(n)

Pad4(n) ==
    IF n < 10 THEN "000" \o ToString(n)
    ELSE IF n < 100 THEN "00" \o ToString(n)
    ELSE IF n < 1000 THEN "0" \o ToString(n)
    ELSE ToString(n)

\* The calendar date of a day counted from 1 January 1970 (proleptic
\* Gregorian calendar), as the Date getters give it.
CivilFromDays(days) ==
    LET z == days + 719468
        era == z \div 146097
        doe == z - era * 146097
        yoe == (doe - doe \div 1460 + doe \div 36524 - doe \div 146096) \div 365
        doy == doe - (365 * yoe + yoe \div 4 - yoe \div 100)
        mp == (5 * doy + 2) \div 153
        d == doy - (153 * mp + 2) \div 5 + 1
        m == IF mp < 10 THEN mp + 3 ELSE mp - 9
        y == yoe + era * 400 + (IF m <= 2 THEN 1 ELSE 0)
    IN  [year |-> y, month |-> m, day |-> d]

\* format(new Date(timestamp), "dd/MM/yyyy 'at' HH:mm:ss"): date-fns reads the
\* fields of the date in the time zone of the process (env.timeZone is its
\* offset from UTC in minutes at that instant); the pattern has no token that
\* reads a locale, and the clock is not read.
formatDateTime(timestamp, env) ==
    LET local == timestamp.sec + env.timeZone * 60
        date == CivilFromDays(local \div 86400)
        inDay == local % 86400
    IN  Pad2(date.day) \o "/" \o Pad2(date.month) \o "/" \o Pad4(date.year)
        \o " at " \o Pad2(inDay \div 3600) \o ":"
        \o Pad2((inDay \div 60) % 60) \o ":" \o Pad2(inDay % 60)

\* The sums seconds + thousandths / 1000 with a 5 in the third decimal whose
\* double lies below that decimal value (1.005 is 1.00499999999999989...),
\* among the ones the bounded inputs reach.  The double of every other such
\* sum lies above it, or is it exactly (0.125).
DoubleBelowDecimal ==
    { <<0, 15>>, <<0, 995>>, <<1, 5>>, <<1, 15>>, <<12, 995>>, <<59, 995>> }

\* Number.prototype.toFixed(2) of the double seconds + thousandths / 1000:
\* the hundredth nearest to the exact value of the double, the larger one
\* if two are equally near.
ToFixed2(seconds, thousandths) ==
    LET hundredths == IF <<seconds, thousandths>> \in DoubleBelowDecimal
                      THEN (seconds * 1000 + thousandths) \div 10
                      ELSE (seconds * 1000 + thousandths + 5) \div 10
    IN  ToString(hundredths \div 100) \o "." \o Pad2(hundredths % 100)

\* intervalToDuration({start: 0, end: milliseconds}) splits the interval into
\* years, months, days, hours, minutes and seconds; formatDuration reads the
\* minutes and the seconds of it only.
formatDuration(milliseconds) ==
    IF milliseconds < 1000 THEN ToString(milliseconds) \o "ms"
    ELSE LET minutes == (milliseconds \div 60000) % 60
             seconds == (milliseconds \div 1000) % 60
         IN  IF minutes = 0
             THEN ToFixed2(seconds, milliseconds % 1000) \o "s"
             ELSE ToString(minutes) \o "m " \o ToString(seconds) \o "s"

(***************************************************************************)
(* MarkdownRenderer (build-md's document is modelled as its sequence of    *)
(* blocks; an emoji is written as its short code).                         *)
(***************************************************************************)
\* A table of icons with those of passed and failed exchanged.
StateIconExchanged(state) ==
    CASE state = "passed" -> ":x:"
      [] state = "failed" -> ":white_check_mark:"
      [] state = "skipped" -> ":next_track_button:"
      [] OTHER -> "undefined"

\* STATE_ICON[state], inside a template literal: a state that is no key
\* prints as "undefined".
STATE_ICON(state) ==
    CASE state = "passed" -> ":white_check_mark:"
      [] state = "failed" -> ":x:"
      [] state = "skipped" -> ":next_track_button:"
      [] OTHER -> "undefined"

Heading(level, text) ==
    [block |-> "heading", level |-> level, text |-> text, rows |-> <<>>,
     items |-> <<>>]

Table(header, rows) ==
    [block |-> "table", level |-> 0, text |-> "", rows |-> <<header>> \o rows,
     items |-> <<>>]

Paragraph(text) ==
    [block |-> "paragraph", level |-> 0, text |-> text, rows |-> <<>>,
     items |-> <<>>]

List(items) ==
    [block |-> "list", level |-> 0, text |-> "", rows |-> <<>>, items |-> items]

\* A list item: its text and, for a suite, the nested list that follows it.
Item(text, nested, items) == [text |-> text, nested |-> nested, items |-> items]

TheRenderer == [bound |-> TRUE]

\* It reads no property of `this`.
renderTest(this, test) ==
    Returned(Item(STATE_ICON(test.meta.state) \o " " \o test.name \o "  _"
                    \o formatDuration(test.meta.duration) \o "_",
                  FALSE, <<>>))

\* The items of suite.tests.map(this.renderTest) followed by those of
\* suite.suites.map(this.renderTestSuite); each method is handed over unbound
\* and runs with `this` undefined.  The template literal of renderTestSuite
\* reads this.renderTest before anything else.
RECURSIVE renderTestSuite(_, _)
renderTestSuite(this, suite) ==
    IF ~this.bound THEN TypeError
    ELSE LET testItems == [i \in DOMAIN suite.tests |->
                              renderTest(ThisUndefined, suite.tests[i])]
             suiteItems == [i \in DOMAIN suite.suites |->
                              renderTestSuite(ThisUndefined, suite.suites[i])]
         IN  IF \E i \in DOMAIN suiteItems : ~suiteItems[i].ok THEN TypeError
             ELSE Returned(Item(":card_index_dividers: " \o suite.name \o " ", TRUE,
                    [i \in DOMAIN testItems |-> testItems[i].value]
                        \o [i \in DOMAIN suiteItems |-> suiteItems[i].value]))

renderTestModule(this, testModule) ==
    LET testItems == [i \in DOMAIN testModule.tests |->
                         renderTest(ThisUndefined, testModule.tests[i])]
        suiteItems == [i \in DOMAIN testModule.suites |->
                         renderTestSuite(ThisUndefined, testModule.suites[i])]
    IN  IF \E i \in DOMAIN suiteItems : ~suiteItems[i].ok THEN TypeError
        ELSE Returned(
            << Heading(4, STATE_ICON(testModule.meta.state) \o " " \o testModule.name),
               Paragraph(ToString(testModule.summary.tests.passed) \o " passed, "
                    \o ToString(testModule.summary.tests.failed) \o " failed, "
                    \o ToString(testModule.summary.tests.skipped) \o " skipped, "
                    \o ToString(testModule.summary.tests.total) \o " total, "
                    \o "done in " \o formatDuration(testModule.meta.duration)),
               List([i \in DOMAIN testItems |-> testItems[i].value]
                        \o [i \in DOMAIN suiteItems |-> suiteItems[i].value]) >>)

\* A project table whose total is added up from the other three counts.
ProjectTableRecounted(project) ==
    Table(<<":white_check_mark: Passed", ":x: Failed", ":next_track_button: Skipped",
            ":hash: Total", ":hourglass: Duration">>,
          << << ToString(project.summary.tests.passed),
                ToString(project.summary.tests.failed),
                ToString(project.summary.tests.skipped),
                ToString(project.summary.tests.passed + project.summary.tests.failed
                            + project.summary.tests.skipped),
                formatDuration(project.meta.duration) >> >>)

renderProjectSummaryTable(project) ==
    Table(<<":white_check_mark: Passed", ":x: Failed", ":next_track_button: Skipped",
            ":hash: Total", ":hourglass: Duration">>,
          << << ToString(project.summary.tests.passed),
                ToString(project.summary.tests.failed),
                ToString(project.summary.tests.skipped),
                ToString(project.summary.tests.total),
                formatDuration(project.meta.duration) >> >>)

\* A rendering that takes the heading from the projectName of the first
\* module of the project.
renderProjectOfModule(this, project, projectLabel) ==
    LET modules == [i \in DOMAIN project.testModules |->
                       renderTestModule(this, project.testModules[i])]
        name == IF project.testModules = <<>> THEN project.name
                ELSE project.testModules[1].projectName
    IN  IF \E i \in DOMAIN modules : ~modules[i].ok THEN TypeError
        ELSE Returned(
            << Heading(3, projectLabel \o ": " \o name),
               renderProjectSummaryTable(project) >>
            \o FlatMap([i \in DOMAIN modules |-> modules[i].value]))

renderProject(this, project, projectLabel) ==
    LET modules == [i \in DOMAIN project.testModules |->
                       renderTestModule(this, project.testModules[i])]
    IN  IF \E i \in DOMAIN modules : ~modules[i].ok THEN TypeError
        ELSE Returned(
            << Heading(3, projectLabel \o ": " \o project.name),
               renderProjectSummaryTable(project) >>
            \o FlatMap([i \in DOMAIN modules |-> modules[i].value]))

renderTestResultsSection(this, data) ==
    LET projects == [i \in DOMAIN data.projects |->
                        renderProject(this, data.projects[i], data.projectLabel)]
    IN  IF \E i \in DOMAIN projects : ~projects[i].ok THEN TypeError
        ELSE Returned(<<Heading(2, "Test Results")>>
                        \o FlatMap([i \in DOMAIN projects |-> projects[i].value]))

renderTestRunSummaryTable(summary) ==
    Table(<<"", ":white_check_mark: Passed", ":x: Failed",
            ":next_track_button: Skipped", ":hash: Total">>,
          << << "Test Files",
                ToString(summary.testModules.passed),
                ToString(summary.testModules.failed),
                ToString(summary.testModules.skipped),
                ToString(summary.testModules.total) >>,
             << "Tests",
                ToString(summary.tests.passed),
                ToString(summary.tests.failed),
                ToString(summary.tests.skipped),
                ToString(summary.tests.total) >> >>)

renderTestRunMetadataTable(meta, env) ==
    Table(<<":information_source: Status", ":clock3: Start Time",
            ":clock4: End Time", ":hourglass: Duration">>,
          << << STATE_ICON(meta.state) \o " " \o meta.state,
                formatDateTime(meta.startTime, env),
                formatDateTime(meta.endTime, env),
                formatDuration(meta.duration) >> >>)

renderTestRunSummarySection(data, env) ==
    << Heading(2, "Test Run Summary"),
       renderTestRunMetadataTable(data.meta, env),
       renderTestRunSummaryTable(data.summary) >>

renderReportTitle(title) == <<Heading(1, title)>>

\* render(data) in a process with environment env: the document, or the
\* error a part of it throws.
render(this, data, env) ==
    LET results == renderTestResultsSection(this, data)
    IN  IF ~results.ok THEN results
        ELSE Returned(renderReportTitle(data.title)
                        \o renderTestRunSummarySection(data, env)
                        \o results.value)

\* The argument of render after the call: render and the methods below it
\* read the value with map, $foreach, the spread and template literals, and
\* call nothing that writes its receiver.
ArgumentAfterRender(this, data) == data

(***************************************************************************)
(* The aggregation specification: the runner reports modules one by one,   *)
(* then the reporter aggregates what was reported.                         *)
(***************************************************************************)
\* The projectsOrder option: absent, the ordering of the README's kind, and
\* an ordering that names a project twice.
OrderOptions == {Absent, Given(<<"A", "C">>), Given(<<"C", "A", "C">>)}

\* Date.now() at construction and at the end of the run.
ConstructionTimes == {Time(1769454233, 389)}

EndTimes == {Time(1769454245, 599)}

SaveIdle ==
    /\ cwd = <<>>
    /\ envRoot = Absent
    /\ fsDirs = {}
    /\ fsFiles = {}
    /\ saveCall = [kind |-> "none"]

\* The process environments: the offset of the time zone from UTC in minutes,
\* and the locale.
Environments ==
    { [timeZone |-> 0, locale |-> "en-US"],
      [timeZone |-> 60, locale |-> "pl-PL"],
      [timeZone |-> 0, locale |-> "pl-PL"] }

StateCounts(p, f, s, t) == [passed |-> p, failed |-> f, skipped |-> s, total |-> t]

\* A TestRunData without projects: a run at the epoch whose counts add up,
\* and a later run whose counts do not.
EmptyRunData(n) ==
    [meta |-> IF n = 1
              THEN [duration |-> 582, startTime |-> Time(0, 0),
                    endTime |-> Time(0, 582), state |-> "passed"]
              ELSE [duration |-> 12210,
                    startTime |-> Time(1769454233, 389),
                    endTime |-> Time(1769454245, 599), state |-> "failed"],
     projectLabel |-> "Project",
     projects |-> <<>>,
     summary |-> IF n = 1
                 THEN [testModules |-> StateCounts(0, 0, 0, 0),
                       tests |-> StateCounts(0, 0, 0, 0)]
                 ELSE [testModules |-> StateCounts(1, 1, 0, 2),
                       tests |-> StateCounts(2, 1, 4, 3)],
     title |-> "Vitest Test Report"]

RenderIdle ==
    /\ renderIn = EmptyRunData(1)
    /\ procEnv = [timeZone |-> 0, locale |-> "en-US"]
    /\ renderCalls = <<>>

\* No renderer utility has been called on its own.
UtilIdle ==
    /\ utilArg = 0
    /\ utilCall = [kind |-> "none"]

\* No lifecycle call has been made.
RunIdle ==
    /\ clock = Time(1769454233, 389)
    /\ runCalls = <<>>
    /\ logged = <<>>

AggregateIdle ==
    /\ constructedWith = NoOptions
    /\ reporter = NewReporter(NoOptions, Time(0, 0))
    /\ testModules = <<>>
    /\ buildCall = [kind |-> "none"]

InitAggregate ==
    /\ constructedWith \in { [NoOptions EXCEPT !.projectsOrder = o] : o \in OrderOptions }
    /\ reporter \in { NewReporter(constructedWith, now) : now \in ConstructionTimes }
    /\ testModules = <<>>
    /\ buildCall = [kind |-> "none"]
    /\ SaveIdle
    /\ RenderIdle
    /\ RunIdle
    /\ UtilIdle

\* The runner finishes a module: its header and its tree join the raw list.
RunnerReportsModule ==
    /\ buildCall.kind = "none"
    /\ RunSize(testModules) < MaxSize
    /\ \E h \in ModuleHeaders, n \in 0..(MaxSize - RunSize(testModules) - 1) :
         \E children \in Forest[n] :
            testModules' = Append(testModules,
                RawModule(h.id, h.project, h.state, h.duration, children))
    /\ UNCHANGED <<reporter, buildCall, saveVars, renderVars, runVars, utilVars, constructedWith>>

\* this.buildTestRunData(testModules, reason, Date.now())
CallBuildTestRunData ==
    /\ buildCall.kind = "none"
    /\ \E reason \in TestRunEndReasons, endTime \in EndTimes :
         LET r == buildTestRunData(reporter, testModules, reason, endTime)
         IN  buildCall' = [kind |-> IF r.ok THEN "returned" ELSE "threw",
                           reason |-> reason,
                           endTime |-> endTime,
                           mapped |-> MappedModules(testModules),
                           result |-> r]
    /\ testModules' = ArraysAfterBuild(reporter, testModules).testModules
    /\ UNCHANGED <<reporter, saveVars, renderVars, runVars, utilVars, constructedWith>>

NextAggregate == RunnerReportsModule \/ CallBuildTestRunData

SpecAggregate == InitAggregate /\ [][NextAggregate]_vars


(***************************************************************************)
(* Claims about the aggregation, checked under SpecAggregate.              *)
(***************************************************************************)
Built == buildCall.kind # "none"

Produced == buildCall.kind = "returned"

RunData == buildCall.result.value

CountsConsistent(c) == c.total = c.passed + c.failed + c.skipped

\* The number of tests below the raw modules, and of those in one state.
RawTestCount(modules, state) ==
    SumSeq([i \in 1..Len(modules) |-> Len(allTests(modules[i].children, state))])

\* The project names of the raw list in the order of their first module.
RECURSIVE DiscoveryOrder(_, _)
DiscoveryOrder(seen, modules) ==
    IF modules = <<>> THEN seen
    ELSE DiscoveryOrder(
            IF \E i \in DOMAIN seen : seen[i] = Head(modules).projectName
            THEN seen ELSE Append(seen, Head(modules).projectName),
            Tail(modules))

PositionIn(seq, x) == CHOOSE i \in DOMAIN seq : seq[i] = x

\* C1: every buildTestRunData call produces a RunData in which every
\* StateCounts (the run's module counts and test counts, each project's and
\* each module's test counts) has total = passed + failed + skipped.
C1_CountInvariant ==
    Built =>
        /\ Produced
        /\ CountsConsistent(RunData.summary.testModules)
        /\ CountsConsistent(RunData.summary.tests)
        /\ \A i \in DOMAIN RunData.projects :
            /\ CountsConsistent(RunData.projects[i].summary.tests)
            /\ \A j \in DOMAIN RunData.projects[i].testModules :
                CountsConsistent(RunData.projects[i].testModules[j].summary.tests)

\* C2: every buildTestRunData call produces a RunData in which each project's
\* test counts are the field-wise sums of its modules' test counts and its
\* duration is the sum of its modules' durations.
C2_SumInvariant ==
    Built =>
        /\ Produced
        /\ \A i \in DOMAIN RunData.projects :
            LET p == RunData.projects[i]
                of(f) == SumSeq([j \in 1..Len(p.testModules) |->
                                    p.testModules[j].summary.tests[f]])
            IN  /\ \A f \in {"passed", "failed", "skipped", "total"} :
                        p.summary.tests[f] = of(f)
                /\ p.meta.duration =
                     SumSeq([j \in 1..Len(p.testModules) |->
                                p.testModules[j].meta.duration])

\* C3: every buildTestRunData call produces a RunData whose summary is that of
\* the raw list: the number of tests below all raw modules, the number of raw
\* modules, and the raw modules in each reported state, whatever projectsOrder
\* is and however the modules spread over projects.
C3_IndependentSummary ==
    Built =>
        /\ Produced
        /\ RunData.summary.tests.total = RawTestCount(testModules, "any")
        /\ RunData.summary.testModules.total = Len(testModules)
        /\ \A st \in State :
            RunData.summary.testModules[st] =
                Cardinality({i \in DOMAIN testModules : testModules[i].state = st})

\* C4: with projectsOrder supplied, every buildTestRunData call produces a
\* RunData whose projects are ordered: named before unnamed, named ones by
\* their index in projectsOrder, unnamed ones in discovery order.
C4_OrderingLaw ==
    (Built /\ reporter.projectsOrder.defined) =>
        /\ Produced
        /\ LET ps == RunData.projects
               order == reporter.projectsOrder.map
               found == DiscoveryOrder(<<>>, testModules)
               named(i) == ps[i].name \in DOMAIN order
           IN  \A i, j \in DOMAIN ps :
                 i < j =>
                    /\ named(j) => named(i)
                    /\ (named(i) /\ named(j)) => order[ps[i].name] < order[ps[j].name]
                    /\ (~named(i) /\ ~named(j)) =>
                          PositionIn(found, ps[i].name) < PositionIn(found, ps[j].name)

\* C5: every buildTestRunData call produces a RunData whose projects partition
\* the raw modules by projectName: each project holds exactly the modules of
\* its name in raw order, names are distinct, no project is empty, and without
\* projectsOrder the projects are in discovery order.
C5_StableGrouping ==
    Built =>
        /\ Produced
        /\ LET ps == RunData.projects
               found == DiscoveryOrder(<<>>, testModules)
           IN  /\ \A i \in DOMAIN ps :
                    /\ ps[i].testModules # <<>>
                    /\ ps[i].testModules =
                         SelectSeq(buildCall.mapped,
                                   LAMBDA m : m.projectName = ps[i].name)
               /\ \A i, j \in DOMAIN ps : ps[i].name = ps[j].name => i = j
               /\ {ps[i].name : i \in DOMAIN ps} = {found[i] : i \in DOMAIN found}
               /\ ~reporter.projectsOrder.defined =>
                    [i \in DOMAIN ps |-> ps[i].name] = found

\* C7: buildTestRunData returns a RunData, without raising, for every raw
\* module list: empty, one module, several modules, several projects.
C7_AggregatorTotal == Built => Produced

\* The states a produced RunData carries: the run's, every module's, and
\* every test's at any depth.
RECURSIVE SuiteStates(_)
SuiteStates(ss) ==
    UNION { {ss[i].tests[j].meta.state : j \in DOMAIN ss[i].tests}
              \cup SuiteStates(ss[i].suites) : i \in DOMAIN ss }

ModuleStates(m) ==
    {m.meta.state} \cup {m.tests[j].meta.state : j \in DOMAIN m.tests}
        \cup SuiteStates(m.suites)

RunDataStates(d) ==
    {d.meta.state}
        \cup UNION { UNION { ModuleStates(d.projects[i].testModules[j]) :
                                j \in DOMAIN d.projects[i].testModules } :
                     i \in DOMAIN d.projects }

\* C10: every state a produced RunData carries is passed, failed or skipped,
\* for every run-end reason and every module and test state of the runner.
C10_StateClosure == Produced => RunDataStates(RunData) \subseteq State


(***************************************************************************)
(* The file-write specification: one saveFileToDisk call in a process with *)
(* some working directory and some REPORT_OUTPUT_ROOT.                     *)
(***************************************************************************)
PathChars == {"/", ".", "r", "x"}

Paths == UNION { [1..n -> PathChars] : n \in 0..MaxPathLen }

\* process.cwd(): an absolute, normalized directory.
WorkingDirs == { <<"/", "r">>, <<"/", "r", "/", "x">>, <<"/">> }

\* REPORT_OUTPUT_ROOT: unset, absolute, relative, with a trailing separator,
\* and empty.
EnvRoots ==
    { Absent, Given(<<"/", "r">>), Given(<<"x">>), Given(<<"/", "r", "/">>),
      Given(<<>>) }

FileContents == {"# Vitest Test Report"}

InitSave ==
    /\ cwd \in WorkingDirs
    /\ envRoot \in EnvRoots
    /\ fsDirs = Ancestors(cwd)
    /\ fsFiles = {}
    /\ saveCall = [kind |-> "none"]
    /\ AggregateIdle
    /\ RenderIdle
    /\ RunIdle
    /\ UtilIdle

CallSaveFileToDisk ==
    /\ saveCall.kind = "none"
    /\ \E fileContent \in FileContents, outputFilePath \in Paths :
         LET r == saveFileToDisk(fileContent, outputFilePath, cwd, envRoot,
                                 fsDirs, fsFiles)
         IN  /\ saveCall' = [kind |-> r.kind, error |-> r.error,
                             fileContent |-> fileContent,
                             outputFilePath |-> outputFilePath,
                             root |-> r.root, resolvedPath |-> r.resolvedPath,
                             ops |-> r.ops,
                             dirsBefore |-> fsDirs, filesBefore |-> fsFiles]
             /\ fsDirs' = r.dirs
             /\ fsFiles' = r.files
    /\ UNCHANGED <<cwd, envRoot, aggVars, renderVars, runVars, utilVars, constructedWith>>

NextSave == CallSaveFileToDisk

SpecSave == InitSave /\ [][NextSave]_vars

(***************************************************************************)
(* Claims about the file write, checked under SpecSave.                    *)
(***************************************************************************)
\* The root directory the documentation names: REPORT_OUTPUT_ROOT if set
\* (taken relative to the working directory), else the working directory.
RootSegments ==
    NormalizeSegments(<<>>,
        Segments(IF envRoot.present
                 THEN (IF IsAbsolute(envRoot.value) THEN envRoot.value
                       ELSE cwd \o Sep \o envRoot.value)
                 ELSE cwd))

\* The segments of the file the call names: an absolute path as it is, a
\* relative one taken from the root.
TargetSegments(outputFilePath) ==
    IF IsAbsolute(outputFilePath)
    THEN NormalizeSegments(<<>>, Segments(outputFilePath))
    ELSE NormalizeSegments(RootSegments, Segments(outputFilePath))

\* Strictly inside: the root's segments are a proper prefix of the target's.
StrictlyInside(target, root) ==
    Len(target) > Len(root) /\ SubSeq(target, 1, Len(root)) = root

RenderProjects ==
    { [name |-> "A", meta |-> [duration |-> 582],
       summary |-> [tests |-> StateCounts(1, 1, 0, 2)], testModules |-> <<>>],
      [name |-> "B", meta |-> [duration |-> 72071],
       summary |-> [tests |-> StateCounts(0, 3, 1, 1)], testModules |-> <<>>] }

\* A module as it is handed to the renderer: the normalized form of a raw
\* tree, as it is or under a state, a projectName and counts of the caller's
\* choice.
RenderModule(variant, children) ==
    LET m == mapTestModule(RawModule("a.test.ts", "A", "passed", Tenths(15), children))
    IN  CASE variant = 1 -> m
          [] variant = 2 -> [m EXCEPT !.meta.state = "failed", !.projectName = "Z",
                                      !.summary.tests = StateCounts(4, 0, 2, 1)]
          [] OTHER -> [m EXCEPT !.meta.state = "skipped"]

RECURSIVE SuitesSize(_)
SuitesSize(ss) ==
    SumSeq([i \in 1..Len(ss) |-> 1 + Len(ss[i].tests) + SuitesSize(ss[i].suites)])

ProjectSize(project) ==
    1 + SumSeq([j \in 1..Len(project.testModules) |->
                   1 + Len(project.testModules[j].tests)
                     + SuitesSize(project.testModules[j].suites)])

RenderSize(data) ==
    SumSeq([i \in 1..Len(data.projects) |-> ProjectSize(data.projects[i])])

InitRender ==
    /\ renderIn \in {EmptyRunData(n) : n \in 1..2}
    /\ procEnv \in Environments
    /\ renderCalls = <<>>
    /\ AggregateIdle
    /\ SaveIdle
    /\ RunIdle
    /\ UtilIdle

\* The caller adds a project to the value it will hand over.
ProvideProject ==
    /\ renderCalls = <<>>
    /\ RenderSize(renderIn) < MaxRenderSize
    /\ \E project \in RenderProjects :
         renderIn' = [renderIn EXCEPT !.projects = Append(@, project)]
    /\ UNCHANGED <<procEnv, renderCalls, aggVars, saveVars, runVars, utilVars, constructedWith>>

\* The caller adds a module to the last project.
ProvideTestModule ==
    /\ renderCalls = <<>>
    /\ renderIn.projects # <<>>
    /\ RenderSize(renderIn) < MaxRenderSize
    /\ \E variant \in 1..3, n \in 0..(MaxRenderSize - RenderSize(renderIn) - 1) :
         \E children \in Forest[n] :
            renderIn' = [renderIn EXCEPT
                            !.projects[Len(renderIn.projects)].testModules =
                                Append(@, RenderModule(variant, children))]
    /\ UNCHANGED <<procEnv, renderCalls, aggVars, saveVars, runVars, utilVars, constructedWith>>

\* The time zone or the locale of the process changes between two calls.
ChangeEnvironment ==
    /\ Len(renderCalls) < MaxRenders
    /\ procEnv' \in Environments \ {procEnv}
    /\ UNCHANGED <<renderIn, renderCalls, aggVars, saveVars, runVars, utilVars, constructedWith>>

\* new MarkdownRenderer().render(data), in the environment of the moment.
CallRender ==
    /\ Len(renderCalls) < MaxRenders
    /\ renderCalls' = Append(renderCalls,
                             [env |-> procEnv, data |-> renderIn,
                              result |-> render(TheRenderer, renderIn, procEnv)])
    /\ renderIn' = ArgumentAfterRender(TheRenderer, renderIn)
    /\ UNCHANGED <<procEnv, aggVars, saveVars, runVars, utilVars, constructedWith>>

NextRender == ProvideProject \/ ProvideTestModule \/ ChangeEnvironment \/ CallRender

SpecRender == InitRender /\ [][NextRender]_vars

(***************************************************************************)
(* The rendering specification of a value whose modules are given another  *)
(* projectName between two calls, in one process environment.              *)
(***************************************************************************)
\* The projectName fields a caller may write: the name of a project, and a
\* name that no project has.
ModuleProjectNames == {"A", "Z"}

\* The caller writes the projectName of one module of the value.
ChangeProjectName ==
    /\ renderCalls # <<>>
    /\ Len(renderCalls) < MaxRenders
    /\ \E i \in DOMAIN renderIn.projects :
         \E j \in DOMAIN renderIn.projects[i].testModules :
            \E name \in ModuleProjectNames :
                /\ renderIn.projects[i].testModules[j].projectName # name
                /\ renderIn' = [renderIn EXCEPT
                        !.projects[i].testModules[j].projectName = name]
    /\ UNCHANGED <<procEnv, renderCalls, aggVars, saveVars, runVars, utilVars, constructedWith>>

InitRelabel ==
    /\ renderIn = EmptyRunData(1)
    /\ procEnv = [timeZone |-> 0, locale |-> "en-US"]
    /\ renderCalls = <<>>
    /\ AggregateIdle
    /\ SaveIdle
    /\ RunIdle
    /\ UtilIdle

NextRelabel ==
    ProvideProject \/ ProvideTestModule \/ ChangeProjectName \/ CallRender

SpecRelabel == InitRelabel /\ [][NextRelabel]_vars

(***************************************************************************)
(* Claims about the renderer, checked under SpecRender.                    *)
(***************************************************************************)
\* C8: render returns a text for every TestRunData value, a module with a
\* suite included: no call ends in an error.
C8_RendererTotal ==
    \A i \in DOMAIN renderCalls : renderCalls[i].result.ok

\* C9: two calls with equal TestRunData values return the same text,
\* whatever the environment of the process is at each call.
C9_RendererDeterministic ==
    \A i, j \in DOMAIN renderCalls :
        renderCalls[i].data = renderCalls[j].data
        => renderCalls[i].result = renderCalls[j].result

\* Every call has returned a document.
Rendered == \A i \in DOMAIN renderCalls : renderCalls[i].result.ok

\* The modules of a TestRunData, project after project.
ModulesOf(data) ==
    FlatMap([i \in 1..Len(data.projects) |-> data.projects[i].testModules])

ListBlocks(document) == SelectSeq(document, LAMBDA b : b.block = "list")

\* The items of a list are those of the tests, in stored order, followed by
\* those of the suites, in stored order, and so in every nested list.
RECURSIVE TestsBeforeSuites(_, _, _)
TestsBeforeSuites(items, ts, ss) ==
    /\ Len(items) = Len(ts) + Len(ss)
    /\ \A k \in 1..Len(ts) :
         /\ ~items[k].nested
         /\ items[k].text = STATE_ICON(ts[k].meta.state) \o " " \o ts[k].name \o "  _"
                                \o formatDuration(ts[k].meta.duration) \o "_"
    /\ \A k \in 1..Len(ss) :
         /\ items[Len(ts) + k].nested
         /\ items[Len(ts) + k].text = ":card_index_dividers: " \o ss[k].name \o " "
         /\ TestsBeforeSuites(items[Len(ts) + k].items, ss[k].tests, ss[k].suites)

\* C11: every call returns a document in which the list of every module and
\* the nested list of every suite hold the direct tests before the direct
\* suites, each kind in stored order.
C11_RenderingOrder ==
    \A i \in DOMAIN renderCalls :
        /\ renderCalls[i].result.ok
        /\ LET lists == ListBlocks(renderCalls[i].result.value)
               mods == ModulesOf(renderCalls[i].data)
           IN  /\ Len(lists) = Len(mods)
               /\ \A k \in 1..Len(mods) :
                    TestsBeforeSuites(lists[k].items, mods[k].tests, mods[k].suites)

\* What a block is, without its cells and items: its kind, its level, the
\* text of a heading and the number of rows of a table below its header.
Outline(document) ==
    [k \in 1..Len(document) |->
        [block |-> document[k].block,
         level |-> document[k].level,
         text |-> IF document[k].block = "heading" THEN document[k].text ELSE "",
         rows |-> IF document[k].block = "table" THEN Len(document[k].rows) - 1 ELSE 0]]

OutlineHeading(level, text) ==
    [block |-> "heading", level |-> level, text |-> text, rows |-> 0]

OutlineTable(rows) == [block |-> "table", level |-> 0, text |-> "", rows |-> rows]

OutlineOther(block) == [block |-> block, level |-> 0, text |-> "", rows |-> 0]

\* The outline of the blocks of a project: its heading, its table, and of
\* every module a heading, a paragraph and a list.
ProjectOutline(project, projectLabel) ==
    << OutlineHeading(3, projectLabel \o ": " \o project.name), OutlineTable(1) >>
    \o FlatMap([j \in 1..Len(project.testModules) |->
            << OutlineHeading(4, STATE_ICON(project.testModules[j].meta.state)
                                    \o " " \o project.testModules[j].name),
               OutlineOther("paragraph"), OutlineOther("list") >>])

DocumentOutline(data) ==
    << OutlineHeading(1, data.title),
       OutlineHeading(2, "Test Run Summary"),
       OutlineTable(1), OutlineTable(2),
       OutlineHeading(2, "Test Results") >>
    \o FlatMap([i \in 1..Len(data.projects) |->
            ProjectOutline(data.projects[i], data.projectLabel)])

\* C12: every call returns a document made of the title, the summary
\* section with its one-row and two-row tables ('Test Files', then 'Tests'),
\* the heading 'Test Results' and the blocks of the projects in stored order.
C12_DocumentStructure ==
    \A i \in DOMAIN renderCalls :
        /\ renderCalls[i].result.ok
        /\ LET document == renderCalls[i].result.value
           IN  /\ Outline(document) = DocumentOutline(renderCalls[i].data)
               /\ document[4].rows[2][1] = "Test Files"
               /\ document[4].rows[3][1] = "Tests"

TableBlocks(document) == SelectSeq(document, LAMBDA b : b.block = "table")

ParagraphBlocks(document) == SelectSeq(document, LAMBDA b : b.block = "paragraph")

CountCells(c) ==
    <<ToString(c.passed), ToString(c.failed), ToString(c.skipped), ToString(c.total)>>

\* C13: the count cells of a rendered document are the counts of the value
\* as they were handed over: the run's table, every project's table with the
\* formatted duration, and every module's paragraph.
C13_CountsVerbatim ==
    \A i \in DOMAIN renderCalls :
        renderCalls[i].result.ok =>
           LET data == renderCalls[i].data
               tables == TableBlocks(renderCalls[i].result.value)
               paragraphs == ParagraphBlocks(renderCalls[i].result.value)
               mods == ModulesOf(data)
           IN  /\ Len(tables) = 2 + Len(data.projects)
               /\ tables[2].rows[2] = <<"Test Files">> \o CountCells(data.summary.testModules)
               /\ tables[2].rows[3] = <<"Tests">> \o CountCells(data.summary.tests)
               /\ \A p \in 1..Len(data.projects) :
                    tables[2 + p].rows[2] =
                        CountCells(data.projects[p].summary.tests)
                        \o <<formatDuration(data.projects[p].meta.duration)>>
               /\ Len(paragraphs) = Len(mods)
               /\ \A k \in 1..Len(mods) :
                    paragraphs[k].text =
                        ToString(mods[k].summary.tests.passed) \o " passed, "
                        \o ToString(mods[k].summary.tests.failed) \o " failed, "
                        \o ToString(mods[k].summary.tests.skipped) \o " skipped, "
                        \o ToString(mods[k].summary.tests.total) \o " total, done in "
                        \o formatDuration(mods[k].meta.duration)

\* A rendered value whose counts do not add up: the run's, a project's, and
\* a module's, which also differ from the tests the module holds.
C13_Witness ==
    \E i \in DOMAIN renderCalls :
        /\ renderCalls[i].result.ok
        /\ ~CountsConsistent(renderCalls[i].data.summary.tests)
        /\ \E p \in DOMAIN renderCalls[i].data.projects :
              LET project == renderCalls[i].data.projects[p]
              IN  /\ ~CountsConsistent(project.summary.tests)
                  /\ \E k \in DOMAIN project.testModules :
                        /\ ~CountsConsistent(project.testModules[k].summary.tests)
                        /\ project.testModules[k].summary.tests.total
                              # Len(project.testModules[k].tests)
                        /\ project.testModules[k].tests # <<>>

ModuleHeadings(document) ==
    SelectSeq(document, LAMBDA b : b.block = "heading" /\ b.level = 4)

\* C14: in a rendered document every module has a level-4 heading made of
\* the icon of the module's own state and the module's name.
C14_ModuleHeading ==
    \A i \in DOMAIN renderCalls :
        renderCalls[i].result.ok =>
           LET headings == ModuleHeadings(renderCalls[i].result.value)
               mods == ModulesOf(renderCalls[i].data)
           IN  /\ Len(headings) = Len(mods)
               /\ \A k \in 1..Len(mods) :
                    headings[k].text =
                        (CASE mods[k].meta.state = "passed" -> ":white_check_mark:"
                           [] mods[k].meta.state = "failed" -> ":x:"
                           [] mods[k].meta.state = "skipped" -> ":next_track_button:")
                        \o " " \o mods[k].name

\* A rendered module in state failed that counts no failed test and holds
\* passed tests only.
C14_Witness ==
    \E i \in DOMAIN renderCalls :
        /\ renderCalls[i].result.ok
        /\ \E k \in DOMAIN ModulesOf(renderCalls[i].data) :
              LET m == ModulesOf(renderCalls[i].data)[k]
              IN  /\ m.meta.state = "failed"
                  /\ m.summary.tests.failed = 0
                  /\ m.tests # <<>>
                  /\ \A t \in DOMAIN m.tests : m.tests[t].meta.state = "passed"

(***************************************************************************)
(* MarkdownReporter: the lifecycle hooks onInit and onTestRunEnd.          *)
(***************************************************************************)
\* A log that needs no context.
logWithoutContext(this, logMessage) == Returned(<<logMessage>>)

\* this.log(logMessage): this.ctx.logger.log, ctx being undefined until
\* onInit has stored it.
log(this, logMessage) ==
    IF ~this.ctxSet THEN TypeError ELSE Returned(<<logMessage>>)

\* A hook that stores the context and leaves the start time as it is.
onInitKeepingStartTime(this, now) == [this EXCEPT !.ctxSet = TRUE]

\* onInit(vitest)
onInit(this, now) == [this EXCEPT !.ctxSet = TRUE, !.startTime = now]

Step(call, ok) == [call |-> call, ok |-> ok]

NotCalled == [ok |-> FALSE, error |-> "not called"]

NoSave(dirs, files) ==
    [kind |-> "none", error |-> "", root |-> <<>>, resolvedPath |-> <<>>,
     ops |-> <<>>, dirs |-> dirs, files |-> files]

\* A handler that writes its message whether the write has thrown or not.
LogWhateverTheWrite(this, save) ==
    LET l == log(this, [text |-> "Markdown report written to ",
                        path |-> save.resolvedPath])
    IN  [steps |-> <<Step("log", l.ok)>>,
         error |-> IF l.ok THEN "" ELSE l.error,
         logs |-> IF l.ok THEN l.value ELSE <<>>]

\* const outputPath = saveFileToDisk(...); this.log(`... ${outputPath}`):
\* a throw of saveFileToDisk leaves the handler before the log call.
LogWrittenPath(this, save) ==
    IF save.kind = "threw"
    THEN [steps |-> <<>>, error |-> save.error, logs |-> <<>>]
    ELSE LET l == log(this, [text |-> "Markdown report written to ",
                             path |-> save.resolvedPath])
         IN  [steps |-> <<Step("log", l.ok)>>,
              error |-> IF l.ok THEN "" ELSE l.error,
              logs |-> IF l.ok THEN l.value ELSE <<>>]

\* onTestRunEnd(testModules, unhandledErrors, reason) at time now, in a
\* process with environment env, working directory dir, REPORT_OUTPUT_ROOT
\* envVar and a disk holding dirs and files: the calls it makes in order,
\* how its promise settles, and the disk and the log lines after it.  Each
\* const of the handler is a value computed once.
onTestRunEnd(this, modules, reason, now, env, dir, envVar, dirs, files) ==
    CHOOSE run \in
        { IF ~data.ok
          THEN [outcome |-> "rejected", error |-> data.error,
                steps |-> <<Step("buildTestRunData", FALSE)>>,
                data |-> data, document |-> NotCalled,
                save |-> NoSave(dirs, files), logs |-> <<>>]
          ELSE CHOOSE afterBuild \in
            { IF ~document.ok
              THEN [outcome |-> "rejected", error |-> document.error,
                    steps |-> <<Step("buildTestRunData", TRUE),
                                Step("render", FALSE)>>,
                    data |-> data, document |-> document,
                    save |-> NoSave(dirs, files), logs |-> <<>>]
              ELSE CHOOSE afterRender \in
                { CHOOSE afterSave \in
                    { [outcome |-> IF tail.error = "" THEN "resolved" ELSE "rejected",
                       error |-> tail.error,
                       steps |-> <<Step("buildTestRunData", TRUE),
                                   Step("render", TRUE),
                                   Step("saveFileToDisk", save.kind = "returned")>>
                                 \o tail.steps,
                       data |-> data, document |-> document, save |-> save,
                       logs |-> tail.logs]
                      : tail \in {LogWrittenPath(this, save)} } : TRUE
                  : save \in {saveFileToDisk(document.value, this.outputFile,
                                             dir, envVar, dirs, files)} } : TRUE
              : document \in {render(TheRenderer, data.value, env)} } : TRUE
          : data \in {buildTestRunData(this, modules, reason, now)} } : TRUE

(***************************************************************************)
(* The lifecycle specification: a reporter is constructed, the clock runs, *)
(* and the runner calls onInit and onTestRunEnd in any order.              *)
(***************************************************************************)
\* The constructor options: none, all of them null, each one alone, all of
\* them, and all of them as empty values.
ReporterOptions ==
    { NoOptions,
      [outputFile |-> Null, projectLabel |-> Null, title |-> Null,
       projectsOrder |-> Null],
      [NoOptions EXCEPT !.outputFile = Given(<<"x", "/", "r">>)],
      [NoOptions EXCEPT !.projectLabel = Given("Workspace")],
      [NoOptions EXCEPT !.title = Given("My Report")],
      [NoOptions EXCEPT !.projectsOrder = Given(<<"A", "C">>)],
      [outputFile |-> Given(<<"x">>), projectLabel |-> Given("Workspace"),
       title |-> Given("My Report"), projectsOrder |-> Given(<<"A", "C">>)],
      [outputFile |-> Given(<<>>), projectLabel |-> Given(""),
       title |-> Given(""), projectsOrder |-> Given(<<>>)] }

\* The testModules argument: an empty run, and a run of two projects.
RunInputs ==
    { <<>>,
      << RawModule("b.test.ts", "B", "failed", Tenths(24),
                   <<RawTest("t2", "failed", Tenths(2005))>>),
         RawModule("a.test.ts", "A", "passed", Tenths(15),
                   <<RawTest("t1", "passed", Tenths(1004))>>) >> }

\* The clock after ms more milliseconds.
Later(time, ms) ==
    Time(time.sec + (time.ms + ms) \div 1000, (time.ms + ms) % 1000)

ClockStart == Time(1769454233, 389)

InitLifecycle ==
    /\ clock = ClockStart
    /\ constructedWith \in ReporterOptions
    /\ reporter = NewReporter(constructedWith, ClockStart)
    /\ cwd \in { <<"/", "r">>, <<"/">> }
    /\ envRoot = Absent
    /\ fsDirs = Ancestors(cwd)
    /\ fsFiles = {}
    /\ procEnv = [timeZone |-> 0, locale |-> "en-US"]
    /\ runCalls = <<>>
    /\ logged = <<>>
    /\ testModules = <<>>
    /\ buildCall = [kind |-> "none"]
    /\ saveCall = [kind |-> "none"]
    /\ renderIn = EmptyRunData(1)
    /\ renderCalls = <<>>
    /\ UtilIdle

\* Time passes.
Tick ==
    /\ MsBetween(ClockStart, clock) < MaxTicks * 582
    /\ Len(runCalls) < MaxRuns
    /\ clock' = Later(clock, 582)
    /\ UNCHANGED <<aggVars, saveVars, renderVars, runCalls, logged, utilVars, constructedWith>>

\* The runner starts a run.
CallOnInit ==
    /\ Len(runCalls) < MaxRuns
    /\ reporter' = onInit(reporter, clock)
    /\ UNCHANGED <<testModules, buildCall, saveVars, renderVars, runVars, utilVars, constructedWith>>

\* The runner ends a run.
CallOnTestRunEnd ==
    /\ Len(runCalls) < MaxRuns
    /\ \E modules \in RunInputs, reason \in TestRunEndReasons :
         \E r \in {onTestRunEnd(reporter, modules, reason, clock, procEnv,
                                 cwd, envRoot, fsDirs, fsFiles)} :
             /\ runCalls' = Append(runCalls,
                    [this |-> reporter, modules |-> modules, reason |-> reason,
                     now |-> clock, outcome |-> r.outcome, error |-> r.error,
                     steps |-> r.steps, data |-> r.data,
                     document |-> r.document, save |-> r.save, logs |-> r.logs,
                     dirsBefore |-> fsDirs, filesBefore |-> fsFiles,
                     loggedBefore |-> logged])
             /\ testModules' = modules
             /\ fsDirs' = r.save.dirs
             /\ fsFiles' = r.save.files
             /\ logged' = logged \o r.logs
    /\ UNCHANGED <<reporter, buildCall, cwd, envRoot, saveCall, renderVars, clock, utilVars, constructedWith>>

NextLifecycle == Tick \/ CallOnInit \/ CallOnTestRunEnd

SpecLifecycle == InitLifecycle /\ [][NextLifecycle]_vars

(***************************************************************************)
(* Claims about the lifecycle, checked under SpecLifecycle.                *)
(***************************************************************************)
HandlerCalls == <<"buildTestRunData", "render", "saveFileToDisk", "log">>

Wrote(run) == \E k \in DOMAIN run.save.ops : run.save.ops[k] = "writeFileSync"

\* C15: every onTestRunEnd call aggregates, renders, writes and logs in this
\* order; a step that fails is the last one and its error settles the call;
\* the file is written at most once and after rendering only; the message is
\* logged after a write that succeeded only, and names the written path.
C15_LifecycleOrder ==
    \A i \in DOMAIN runCalls :
        LET run == runCalls[i]
        IN  /\ Len(run.steps) \in 1..4
            /\ \A k \in DOMAIN run.steps :
                 /\ run.steps[k].call = HandlerCalls[k]
                 /\ k < Len(run.steps) => run.steps[k].ok
            /\ (run.outcome = "resolved") <=> (Len(run.steps) = 4 /\ run.steps[4].ok)
            /\ (run.outcome = "rejected") <=> (run.error # "")
            /\ Cardinality({k \in DOMAIN run.save.ops :
                               run.save.ops[k] = "writeFileSync"}) <= 1
            /\ Wrote(run) =>
                 /\ run.document.ok
                 /\ [path |-> run.save.resolvedPath, content |-> run.document.value]
                        \in run.save.files
            /\ ~Wrote(run) => run.save.files = run.filesBefore
            /\ Len(run.steps) < 3 =>
                 run.save.dirs = run.dirsBefore /\ run.save.files = run.filesBefore
            /\ Len(run.logs) <= 1
            /\ run.logs # <<>> =>
                 /\ run.save.kind = "returned"
                 /\ run.logs[1].path = run.save.resolvedPath
            /\ (run.save.kind = "returned" /\ run.this.ctxSet) => Len(run.logs) = 1
            /\ (\E k \in 1..3 : k \in DOMAIN run.steps /\ ~run.steps[k].ok) =>
                 run.logs = <<>>

\* Two calls of one reporter: one that wrote and logged, and one that failed
\* in the aggregation and did nothing else.
C15_Witness ==
    \E i, j \in DOMAIN runCalls :
        /\ runCalls[i].outcome = "resolved"
        /\ Wrote(runCalls[i])
        /\ Len(runCalls[i].logs) = 1
        /\ runCalls[j].outcome = "rejected"
        /\ runCalls[j].steps = <<Step("buildTestRunData", FALSE)>>
        /\ runCalls[j].logs = <<>>

C16_PathAcceptance ==
    (/\ saveCall.kind # "none"
     /\ StrictlyInside(TargetSegments(saveCall.outputFilePath), RootSegments))
    => /\ saveCall.kind = "returned"
       /\ saveCall.resolvedPath = JoinAbsolute(TargetSegments(saveCall.outputFilePath))
       /\ saveCall.ops = <<"mkdirSync", "writeFileSync">>
       /\ Ancestors(pathDirname(saveCall.resolvedPath)) \subseteq fsDirs
       /\ [path |-> saveCall.resolvedPath, content |-> saveCall.fileContent] \in fsFiles

(***************************************************************************)
(* The duration specification: formatDuration is called with a number of   *)
(* milliseconds.                                                           *)
(***************************************************************************)
\* The minutes, seconds and thousandths the arguments are put together
\* from: the values of the repository's tests (582, 12210, 72071), the ends
\* of each range, and thousandths with a 5 in the third decimal.
DurationMinutes == {0, 1, 59}

DurationSeconds == {0, 1, 12, 59}

DurationThousandths == {0, 1, 5, 15, 71, 125, 210, 582, 994, 995, 999}

Durations ==
    { ((h * 60 + m) * 60 + sec) * 1000 + t :
        h \in 0..MaxHours, m \in DurationMinutes, sec \in DurationSeconds,
        t \in DurationThousandths }

InitDuration ==
    /\ utilArg \in Durations
    /\ utilCall = [kind |-> "none"]
    /\ AggregateIdle
    /\ SaveIdle
    /\ RenderIdle
    /\ RunIdle

CallFormatDuration ==
    /\ utilCall.kind = "none"
    /\ utilCall' = [kind |-> "formatDuration", arg |-> utilArg,
                    result |-> formatDuration(utilArg)]
    /\ UNCHANGED <<utilArg, aggVars, saveVars, renderVars, runVars, constructedWith>>

NextDuration == CallFormatDuration

SpecDuration == InitDuration /\ [][NextDuration]_vars

(***************************************************************************)
(* Claims about formatDuration, checked under SpecDuration.                *)
(***************************************************************************)
Formatted == utilCall.kind = "formatDuration"

TwoDigits(n) == IF n < 10 THEN "0" \o ToString(n) ELSE ToString(n)

\* '<s.ss>s': a number with exactly two decimals, then the letter s.
SecondsForm(text) ==
    \E whole \in 0..60, hundredths \in 0..99 :
        text = ToString(whole) \o "." \o TwoDigits(hundredths) \o "s"

\* '<m>m <s>s': whole minutes and whole seconds.
MinutesForm(text) ==
    \E m \in 1..((MaxHours + 1) * 60), sec \in 0..59 :
        text = ToString(m) \o "m " \o ToString(sec) \o "s"

\* C18: below a second the result is '<ms>ms'; from a second up to a minute
\* it is '<s.ss>s'; from a minute on it is '<m>m <s>s'; and 582, 12210 and
\* 72071 give '582ms', '12.21s' and '1m 12s'.
C18_DurationForms ==
    Formatted =>
        /\ utilCall.arg < 1000 => utilCall.result = ToString(utilCall.arg) \o "ms"
        /\ (1000 <= utilCall.arg /\ utilCall.arg < 60000) => SecondsForm(utilCall.result)
        /\ utilCall.arg >= 60000 => MinutesForm(utilCall.result)
        /\ utilCall.arg = 582 => utilCall.result = "582ms"
        /\ utilCall.arg = 12210 => utilCall.result = "12.21s"
        /\ utilCall.arg = 72071 => utilCall.result = "1m 12s"

\* C20: from a minute on, the result is the whole minutes of the duration
\* and the whole seconds that remain, also for an hour and more.
C20_WholeMinutes ==
    (Formatted /\ utilCall.arg >= 60000) =>
        utilCall.result = ToString(utilCall.arg \div 60000) \o "m "
                            \o ToString((utilCall.arg \div 1000) % 60) \o "s"

(***************************************************************************)
(* A claim about the constructor options, checked under SpecLifecycle.     *)
(***************************************************************************)
\* The value an option stands for: the supplied one, or the default when
\* the option is undefined or null.
Configured(option, default) ==
    IF option.present THEN option.value ELSE default

\* The names of the projects of a RunData, in their order.
NamesOfProjects(data) == [i \in DOMAIN data.projects |-> data.projects[i].name]

\* C19: the reporter holds outputFile 'vitest-report.md', projectLabel
\* 'Project' and title 'Vitest Test Report' exactly for the options that
\* are undefined or null and every supplied value unchanged; each run puts
\* that label and title into the RunData and resolves that outputFile for
\* the write; and with no projectsOrder option each run yields the projects
\* in the order in which they were discovered.
C19_ConfigurationDefaults ==
    /\ reporter.outputFile
        = Configured(constructedWith.outputFile, <<"vitest-report.md">>)
    /\ reporter.projectLabel
        = Configured(constructedWith.projectLabel, "Project")
    /\ reporter.title
        = Configured(constructedWith.title, "Vitest Test Report")
    /\ \A i \in DOMAIN runCalls :
        LET run == runCalls[i] IN
        /\ run.data.ok =>
            /\ run.data.value.projectLabel
                = Configured(constructedWith.projectLabel, "Project")
            /\ run.data.value.title
                = Configured(constructedWith.title, "Vitest Test Report")
        /\ run.save.kind # "none" =>
            run.save.resolvedPath
                = pathResolve(cwd, run.save.root,
                    Configured(constructedWith.outputFile, <<"vitest-report.md">>))
        /\ ~constructedWith.projectsOrder.present =>
            /\ run.data.ok
            /\ NamesOfProjects(run.data.value) = DiscoveryOrder(<<>>, run.modules)

(***************************************************************************)
(* More claims about formatDuration, checked under SpecDuration.           *)
(***************************************************************************)
\* C21: from a second up to a minute the result is '<x>s', x being the
\* duration in seconds written with two decimals, and x is below 60.00.
C21_SecondsBelowMinute ==
    (Formatted /\ 1000 <= utilCall.arg /\ utilCall.arg < 60000) =>
        \E whole \in 0..59, hundredths \in 0..99 :
            /\ utilCall.result
                = ToString(whole) \o "." \o TwoDigits(hundredths) \o "s"
            /\ (whole * 100 + hundredths) * 10 - utilCall.arg \in -5..5

(***************************************************************************)
(* Claims about the normalization, checked under SpecAggregate: the        *)
(* modules mapTestModule has returned are those the call has mapped.       *)
(***************************************************************************)
\* The direct children of one type, in enumeration order.
DirectChildren(children, type) ==
    SelectSeq(children, LAMBDA child : child.type = type)

\* n is the number in tenths rounded to the nearest integer, 0 standing for
\* a missing number.
RoundedTo(number, n) ==
    IF number.present THEN 10 * n - number.tenths \in -5..5 ELSE n = 0

TestPreserved(raw, test) ==
    /\ test.name = raw.name
    /\ test.meta.state = raw.state
    /\ RoundedTo(raw.duration, test.meta.duration)

\* The normalized tests and suites are those of the raw children, at every
\* depth.
RECURSIVE TreePreserved(_, _, _)
TreePreserved(children, normTests, normSuites) ==
    LET rawTests == DirectChildren(children, "test")
        rawSuites == DirectChildren(children, "suite")
    IN  /\ Len(normTests) = Len(rawTests)
        /\ \A i \in DOMAIN rawTests : TestPreserved(rawTests[i], normTests[i])
        /\ Len(normSuites) = Len(rawSuites)
        /\ \A i \in DOMAIN rawSuites :
            /\ normSuites[i].name = rawSuites[i].name
            /\ TreePreserved(rawSuites[i].children,
                             normSuites[i].tests, normSuites[i].suites)

\* C22: every normalized module holds the direct tests and suites of its
\* raw module in enumeration order, and so does every suite below it; every
\* test has the raw name and state and the raw duration rounded to the
\* nearest integer, 0 if it is missing; and the module's duration is the
\* raw one rounded alike.
C22_NormalizationPreservesTree ==
    Built =>
        /\ Len(buildCall.mapped) = Len(testModules)
        /\ \A i \in DOMAIN testModules :
            /\ TreePreserved(testModules[i].children,
                             buildCall.mapped[i].tests, buildCall.mapped[i].suites)
            /\ RoundedTo(testModules[i].duration, buildCall.mapped[i].meta.duration)

\* A call that has mapped a module whose first child is a suite holding a
\* test and whose second child is a test with no duration.
C22_Witness ==
    /\ Built
    /\ \E i \in DOMAIN testModules :
        LET children == testModules[i].children
        IN  /\ Len(children) = 2
            /\ children[1].type = "suite"
            /\ Len(DirectChildren(children[1].children, "test")) = 1
            /\ children[2].type = "test"
            /\ ~children[2].duration.present
            /\ buildCall.mapped[i].suites[1].tests[1].meta.duration = 201

\* The Test leaves of a normalized tree: the tests, then those of each suite.
RECURSIVE NormalizedLeaves(_, _)
NormalizedLeaves(normTests, normSuites) ==
    normTests \o FlatMap([i \in 1..Len(normSuites) |->
                    NormalizedLeaves(normSuites[i].tests, normSuites[i].suites)])

LeavesInState(leaves, state) ==
    Len(SelectSeq(leaves, LAMBDA leaf : leaf.meta.state = state))

\* C23: in every normalized module summary.tests.total is the number of
\* Test leaves of the tree the module carries, and passed, failed and
\* skipped are the numbers of those leaves in that state.
C23_ModuleSummaryAgrees ==
    Built =>
        \A i \in DOMAIN buildCall.mapped :
            LET module == buildCall.mapped[i]
                leaves == NormalizedLeaves(module.tests, module.suites)
            IN  /\ module.summary.tests.total = Len(leaves)
                /\ module.summary.tests.passed = LeavesInState(leaves, "passed")
                /\ module.summary.tests.failed = LeavesInState(leaves, "failed")
                /\ module.summary.tests.skipped = LeavesInState(leaves, "skipped")

\* A normalized module with a failed test in a suite, a direct passed test
\* and a count of two.
C23_Witness ==
    /\ Built
    /\ \E i \in DOMAIN buildCall.mapped :
        LET module == buildCall.mapped[i]
        IN  /\ Len(module.suites) = 1
            /\ Len(module.suites[1].tests) = 1
            /\ module.suites[1].tests[1].meta.state = "failed"
            /\ Len(module.tests) = 1
            /\ module.tests[1].meta.state = "passed"
            /\ module.summary.tests.total = 2
            /\ module.summary.tests.failed = 1

(***************************************************************************)
(* More claims about the renderer, checked under SpecRender.               *)
(***************************************************************************)
\* '<icon> <name>  <italic duration>', with two spaces before the duration.
TestItem(test) ==
    Item(STATE_ICON(test.meta.state) \o " " \o test.name \o "  _"
            \o formatDuration(test.meta.duration) \o "_", FALSE, <<>>)

\* The folder icon and the name, followed by the nested list of the direct
\* tests and then of the child suites, each by the same rule.
RECURSIVE SuiteItem(_)
SuiteItem(suite) ==
    Item(":card_index_dividers: " \o suite.name \o " ", TRUE,
         [k \in 1..Len(suite.tests) |-> TestItem(suite.tests[k])]
            \o [k \in 1..Len(suite.suites) |-> SuiteItem(suite.suites[k])])

\* C24: every suite of every module handed to render is rendered, after the
\* module's tests, as one list item of the folder icon and the suite name
\* followed by a nested list of its tests and then its child suites, at
\* every depth; a suite with no children has an empty nested list.
C24_SuiteRendering ==
    \A i \in DOMAIN renderCalls :
        LET mods == ModulesOf(renderCalls[i].data)
        IN  \A k \in 1..Len(mods) : \A s \in 1..Len(mods[k].suites) :
                /\ renderCalls[i].result.ok
                /\ ListBlocks(renderCalls[i].result.value)[k]
                        .items[Len(mods[k].tests) + s]
                    = SuiteItem(mods[k].suites[s])

(***************************************************************************)
(* A claim about the projectName of the modules, checked under SpecRelabel.*)
(***************************************************************************)
\* The value with the projectName of every module blanked.
WithoutProjectNames(data) ==
    [data EXCEPT !.projects =
        [i \in DOMAIN data.projects |->
            [data.projects[i] EXCEPT !.testModules =
                [j \in DOMAIN data.projects[i].testModules |->
                    [data.projects[i].testModules[j] EXCEPT !.projectName = ""]]]]]

ProjectHeadings(document) ==
    SelectSeq(document, LAMBDA b : b.block = "heading" /\ b.level = 3)

\* C25: two values that differ in the projectName of their modules only are
\* rendered alike, and the heading of every project is made of the label
\* and project.name.
C25_ProjectNameIgnored ==
    /\ \A i, j \in DOMAIN renderCalls :
        WithoutProjectNames(renderCalls[i].data) = WithoutProjectNames(renderCalls[j].data)
            => renderCalls[i].result = renderCalls[j].result
    /\ \A i \in DOMAIN renderCalls :
        renderCalls[i].result.ok =>
            LET headings == ProjectHeadings(renderCalls[i].result.value)
                data == renderCalls[i].data
            IN  /\ Len(headings) = Len(data.projects)
                /\ \A k \in DOMAIN data.projects :
                    headings[k].text = data.projectLabel \o ": " \o data.projects[k].name

\* Two documents of values that are not the same and differ in a projectName
\* only, one of them naming a project that is not the module's own.
C25_Witness ==
    \E i, j \in DOMAIN renderCalls :
        /\ renderCalls[i].data # renderCalls[j].data
        /\ WithoutProjectNames(renderCalls[i].data) = WithoutProjectNames(renderCalls[j].data)
        /\ renderCalls[i].result.ok
        /\ renderCalls[j].result.ok
        /\ \E k \in DOMAIN renderCalls[j].data.projects :
            LET project == renderCalls[j].data.projects[k]
            IN  /\ project.testModules # <<>>
                /\ project.testModules[1].projectName # project.name
                /\ project.testModules[1].tests # <<>>

(***************************************************************************)
(* The specification of the two components called on given values: a raw   *)
(* module list and a TestRunData are given, buildTestRunData is called on  *)
(* the one and render on the other.                                        *)
(***************************************************************************)
\* The raw lists: the empty one, and two modules of any two headers, the
\* first of them with one child.
FrameRuns ==
    { <<>> } \cup
    { << RawModule(h.id, h.project, h.state, h.duration, children),
         RawModule(g.id, g.project, g.state, g.duration, <<>>) >> :
        h \in ModuleHeaders, g \in ModuleHeaders, children \in Forest[1] }

\* The TestRunData values: the empty one, and project B with two modules
\* followed by project A with none.
FrameValues ==
    { EmptyRunData(1) } \cup
    { [EmptyRunData(2) EXCEPT !.projects =
        << [name |-> "B", meta |-> [duration |-> 72071],
            summary |-> [tests |-> StateCounts(0, 3, 1, 1)],
            testModules |-> << RenderModule(2, children), RenderModule(1, <<>>) >>],
           [name |-> "A", meta |-> [duration |-> 582],
            summary |-> [tests |-> StateCounts(1, 1, 0, 2)],
            testModules |-> <<>>] >>] : children \in Forest[1] }

InitFrame ==
    /\ constructedWith \in { [NoOptions EXCEPT !.projectsOrder = o] : o \in OrderOptions }
    /\ reporter \in { NewReporter(constructedWith, now) : now \in ConstructionTimes }
    /\ testModules \in FrameRuns
    /\ buildCall = [kind |-> "none"]
    /\ renderIn \in FrameValues
    /\ procEnv = [timeZone |-> 0, locale |-> "en-US"]
    /\ renderCalls = <<>>
    /\ SaveIdle
    /\ RunIdle
    /\ UtilIdle

NextFrame == CallBuildTestRunData \/ CallRender

SpecFrame == InitFrame /\ [][NextFrame]_vars

ProjectsTestCount(data, field) ==
    SumSeq([i \in 1..Len(data.projects) |-> data.projects[i].summary.tests[field]])

\* C27: every buildTestRunData call produces a RunData whose summary.tests
\* counts, computed from the raw list, are the sums of the projects' counts,
\* computed from the normalized modules, and whose summary.testModules.total
\* is the number of modules of all projects.
C27_SummaryPathsAgree ==
    Built =>
        /\ Produced
        /\ \A field \in {"passed", "failed", "skipped", "total"} :
            RunData.summary.tests[field] = ProjectsTestCount(RunData, field)
        /\ RunData.summary.testModules.total = Len(ModulesOf(RunData))

\* The index, counted from 0, of the last occurrence of a name in a list.
LastIndexOf(names, name) ==
    CHOOSE i \in 0..(Len(names) - 1) :
        /\ names[i + 1] = name
        /\ \A j \in DOMAIN names : names[j] = name => j <= i + 1

ProjectPosition(data, name) ==
    CHOOSE i \in DOMAIN data.projects : data.projects[i].name = name

\* C28: the reporter keeps for every name of the projectsOrder option the
\* index of its last occurrence, and a call on modules of two projects of
\* the option produces them in the order of those indices.
C28_LastOccurrenceOrders ==
    constructedWith.projectsOrder.present =>
        LET names == constructedWith.projectsOrder.value
        IN  /\ \A k \in DOMAIN names :
                reporter.projectsOrder.map[names[k]] = LastIndexOf(names, names[k])
            /\ \A a, b \in {names[k] : k \in DOMAIN names} :
                (/\ Built
                 /\ LastIndexOf(names, a) < LastIndexOf(names, b)
                 /\ \E i \in DOMAIN testModules : testModules[i].projectName = a
                 /\ \E i \in DOMAIN testModules : testModules[i].projectName = b)
                => /\ Produced
                   /\ ProjectPosition(RunData, a) < ProjectPosition(RunData, b)

====
